---- MODULE Spec2Model ----
(***************************************************************************)
(* The assessment pipeline of GreenCredit-AI (src/App.tsx): the App        *)
(* component's state, the runAnalysis orchestrator with its seven oracle   *)
(* stages, and the debounced re-run effect on the five slider fields.      *)
(*                                                                         *)
(* A run is one invocation of runAnalysis.  Its oracle calls settle at     *)
(* arbitrary moments chosen by the environment; the code between two       *)
(* awaits runs as one step (JavaScript runs a continuation to completion). *)
(* An artifact's value is modelled by its provenance: the number of the    *)
(* run whose stage produced it, 0 for the initial null / [] value.         *)
(***************************************************************************)
EXTENDS Integers, Sequences, FiniteSets, TLC

\* ----------------------------------------------------------------- bounds
MaxRuns == 2        \* invocations of runAnalysis followed
MaxEdits == 2       \* input edits followed
OverlapRuns == 3    \* the same under SpecOverlap, which follows three runs
OverlapEdits == 1
PayloadRuns == 2    \* the same under SpecPayload, where the oracle may
PayloadEdits == 1   \* answer with JSON of the wrong shape
LiveClicks == 1     \* clicks on Proceed and edits followed under SpecLive,
LiveEdits == 1      \* where each of them can be followed to its end

\* -------------------------------------------------------------- constants
DebounceMs == 800           \* setTimeout delay of the debounce effect
AppStepInput == 1
AppStepNormalization == 2
AppStepReview == 8
NoRun == 0                  \* provenance of an artifact no run has written
NoTimer == 0                \* debounceTimer.current = null

Min(a, b) == IF a < b THEN a ELSE b
Max(a, b) == IF a > b THEN a ELSE b

\* ------------------------------------------------------------ input model
WatchedFields ==
  {"revenue", "debtToIncomeRatio", "carbonIntensity", "laborCompliance",
   "cashFlowStability"}

\* The sliders (type="range") and the other controls wired to
\* handleInputChange; the edits followed are those of two sliders, the
\* industry select and the business-type buttons.
RangeFields == {"revenue", "carbonIntensity"}

TextFields == {"industry"}

InitialInput ==
  [businessType |-> "SME", industry |-> "Manufacturing", revenue |-> 5000000,
   cashFlowStability |-> 75, debtToIncomeRatio |-> 35,
   creditHistory |-> "7 years clean",
   energySource |-> "Grid Mix (Coal heavy)", carbonIntensity |-> 80,
   laborCompliance |-> 90, regulatoryIssues |-> "None"]

\* A DOM value of a range input is a string of decimal digits, written here
\* as the sequence of its digits.
RECURSIVE Number(_)
Number(digits) ==
  IF digits = <<>> THEN 0
  ELSE 10 * Number(SubSeq(digits, 1, Len(digits) - 1)) + digits[Len(digits)]

\* The change events the form can deliver: {name, value, type} of e.target.
SliderValues(name) ==
  CASE name = "revenue" -> {<<5, 0, 0, 0, 0, 0, 0>>, <<1, 0, 0, 0, 0, 0>>}
    [] name = "carbonIntensity" -> {<<8, 0>>, <<2, 0>>}

TextValues(name) ==
  CASE name = "industry" -> {"Manufacturing", "Technology"}

ChangeEvents ==
  UNION {{[name |-> n, value |-> v, type |-> "range"] :
            v \in SliderValues(n)} : n \in RangeFields}
  \cup
  UNION {{[name |-> n, value |-> v, type |-> "text"] :
            v \in TextValues(n)} : n \in TextFields}

BusinessTypes == {"SME", "Startup"}

\* handleInputChange's updater: {...prev, [name]: Number(value) or value}.
SetField(prev, name, value, type) ==
  [prev EXCEPT ![name] =
     IF type = "range" \/ type = "number" THEN Number(value) ELSE value]

Watched(inp) == [f \in WatchedFields |-> inp[f]]

\* --------------------------------------------------------------- pipeline
Stages ==
  {"normalizeData", "assessFinancialRisk", "assessSustainabilityRisk",
   "getDecision", "planUplift", "simulateClimate", "getReview"}

\* The awaits of runAnalysis in order, each with the oracle calls it issues
\* and waits for.
AwaitCalls(pc) ==
  CASE pc = "normalize" -> {"normalizeData"}
    [] pc = "risk" -> {"assessFinancialRisk", "assessSustainabilityRisk"}
    [] pc = "decide" -> {"getDecision"}
    [] pc = "plan" -> {"planUplift", "simulateClimate"}
    [] pc = "review" -> {"getReview"}
    [] OTHER -> {}

NextAwait(pc) ==
  CASE pc = "normalize" -> "risk"
    [] pc = "risk" -> "decide"
    [] pc = "decide" -> "plan"
    [] pc = "plan" -> "review"
    [] pc = "review" -> "done"

InFlight(run) == run.pc \notin {"done", "failed"}

\* --------------------------------------------------------- stage adapters
\* What the oracle's response.text can be: JSON of the declared shape, JSON
\* with a required field missing, or text that is no JSON at all.
ResponseTexts == {"conforming", "missingField", "notJson"}

\* JSON.parse: throws on text that is no JSON, and otherwise returns the
\* parsed value whatever its shape.
JSONparse(text) == IF text = "notJson" THEN "SyntaxError" ELSE text

\* `return JSON.parse(response.text)`: what a stage function resolves with.
\* The responseSchema is part of the request; the adapter itself checks
\* nothing.
AdapterReturns(text) == JSONparse(text)

VARIABLES
  step, loading, realTimeUpdate, input,
  normalized, financialRisk, sustainabilityRisk, decision, uplift,
  simulations, review,
  debounceTimer,    \* the ref: id of the timer last scheduled, or NoTimer
  timers,           \* the host's pending timeouts: [id, left, snap]
  mounted,
  runs,             \* the invocations of runAnalysis, in start order
  alerts,           \* number of alert() dialogs raised
  edits,            \* number of input edits so far
  triggers,         \* number of clicks and timer callbacks that ran
  limits,           \* how many runs and edits this behaviour is followed for
  sinceWatched,     \* ms since the last watched-field change (capped)
  burst             \* the current series of watched-field changes

artifacts ==
  <<normalized, financialRisk, sustainabilityRisk, decision, uplift,
    simulations, review>>
ui == <<step, loading, realTimeUpdate, alerts>>
debounce == <<debounceTimer, timers>>
clock == <<sinceWatched, burst>>
vars ==
  <<ui, input, edits, triggers, limits, artifacts, debounce, mounted, runs,
    clock>>

Artifacts ==
  [normalized |-> normalized, financialRisk |-> financialRisk,
   sustainabilityRisk |-> sustainabilityRisk, decision |-> decision,
   uplift |-> uplift, simulations |-> simulations, review |-> review]

ArtifactNames == DOMAIN Artifacts

InitialState ==
  /\ step = AppStepInput
  /\ loading = FALSE
  /\ realTimeUpdate = FALSE
  /\ input = InitialInput
  /\ normalized = NoRun
  /\ financialRisk = NoRun
  /\ sustainabilityRisk = NoRun
  /\ decision = NoRun
  /\ uplift = NoRun
  /\ simulations = NoRun
  /\ review = NoRun
  /\ debounceTimer = NoTimer
  /\ timers = {}
  /\ mounted = TRUE
  /\ runs = <<>>
  /\ alerts = 0
  /\ edits = 0
  /\ triggers = 0
  /\ sinceWatched = DebounceMs
  /\ burst = [n |-> 0, armed |-> FALSE, fired |-> 0]

Init ==
  /\ InitialState
  /\ limits = [runs |-> MaxRuns, edits |-> MaxEdits, clicks |-> MaxRuns,
               malformed |-> {}]

InitOverlap ==
  /\ InitialState
  /\ limits = [runs |-> OverlapRuns, edits |-> OverlapEdits,
               clicks |-> OverlapRuns, malformed |-> {}]

InitPayload ==
  /\ InitialState
  /\ limits = [runs |-> PayloadRuns, edits |-> PayloadEdits,
               clicks |-> PayloadRuns, malformed |-> {"getDecision"}]

\* An edit schedules at most one timer, so with this many runs no elapsed
\* timer and no click is ever held back by the bound on the runs.
InitLive ==
  /\ InitialState
  /\ limits = [runs |-> LiveClicks + LiveEdits, edits |-> LiveEdits,
               clicks |-> LiveClicks, malformed |-> {}]

\* The response texts followed for the oracle call of stage s: those of the
\* wrong shape only for the stages limits.malformed names.
Responses(s) ==
  IF s \in limits.malformed
  THEN ResponseTexts
  ELSE ResponseTexts \ {"missingField"}

\* ------------------------------------------------------- debounce effect
ClearTimeout(ts, id) == {t \in ts : t.id # id}

\* (variant: the pending timeout is left to run)
ClearPending_Keep(ts, ref) == ts

\* `if (debounceTimer.current) clearTimeout(debounceTimer.current)`
ClearPending(ts, ref) == IF ref # NoTimer THEN ClearTimeout(ts, ref) ELSE ts

\* `if (normalized)`: the effect schedules a re-run only then.
ShouldSchedule(norm) == norm # NoRun

\* (variant: the effect depends on the revenue only)
EffectDepsChanged_RevenueOnly(prev, next) == prev.revenue # next.revenue

\* (variant: the effect depends on the whole input)
EffectDepsChanged_Any(prev, next) == prev # next

\* The effect's dependency list: it re-runs when one of these changed.
EffectDepsChanged(prev, next) == Watched(prev) # Watched(next)

\* The timeout callback calls the runAnalysis of the render that scheduled
\* it, whose closure holds that render's input.
CallbackInput(renderInput) == renderInput

NewTimer(id, renderInput) ==
  [id |-> id, left |-> DebounceMs, snap |-> CallbackInput(renderInput)]

\* One run of the effect after a render with input `next`: the previous
\* run's cleanup, then the body.
DebounceEffect(next) ==
  LET cleaned ==
        ClearPending(ClearPending(timers, debounceTimer), debounceTimer)
      id == debounceTimer + 1
  IN IF ShouldSchedule(normalized)
     THEN /\ debounceTimer' = id
          /\ timers' = cleaned \cup {NewTimer(id, next)}
     ELSE /\ debounceTimer' = debounceTimer
          /\ timers' = cleaned

\* Bookkeeping of the series of watched-field changes: a change less than
\* DebounceMs after the previous one continues the series.
NoteWatchedChange ==
  /\ sinceWatched' = 0
  /\ burst' =
       IF burst.n > 0 /\ sinceWatched < DebounceMs
       THEN [burst EXCEPT !.n = burst.n + 1,
                          !.armed = ShouldSchedule(normalized)]
       ELSE [n |-> 1, armed |-> ShouldSchedule(normalized), fired |-> 0]

\* (variant: the update is made in place, in the object the runs hold)
HeldInput_Live(held, next) == next

\* `setInput(prev => ({ ...prev, ... }))` builds a new object: the object a
\* run's closure holds, and passed to normalizeData, stays as it was.
HeldInput(held, next) == held

\* setInput followed by the render and, if a dependency changed, the effect.
Rerender(next) ==
  /\ input' = next
  /\ edits' = edits + 1
  /\ runs' = [i \in DOMAIN runs |->
               [runs[i] EXCEPT !.inp = HeldInput(runs[i].inp, next)]]
  /\ IF EffectDepsChanged(input, next)
     THEN DebounceEffect(next) /\ NoteWatchedChange
     ELSE UNCHANGED <<debounce, clock>>

\* The form is rendered on the Input step only.
FormShown == mounted /\ step = AppStepInput

\* (variant: an edit drops the results derived from the earlier input)
handleInputChange_Invalidate(e) ==
  /\ FormShown
  /\ edits < limits.edits
  /\ SetField(input, e.name, e.value, e.type) # input
  /\ Rerender(SetField(input, e.name, e.value, e.type))
  /\ review' = NoRun
  /\ UNCHANGED <<ui, triggers, limits, mounted, normalized, financialRisk,
                 sustainabilityRisk, decision, uplift, simulations>>

handleInputChange(e) ==
  /\ FormShown
  /\ edits < limits.edits
  /\ SetField(input, e.name, e.value, e.type) # input
  /\ Rerender(SetField(input, e.name, e.value, e.type))
  /\ UNCHANGED <<ui, triggers, limits, artifacts, mounted>>

SelectBusinessType(type) ==
  /\ FormShown
  /\ edits < limits.edits
  /\ type # input.businessType
  /\ Rerender([input EXCEPT !.businessType = type])
  /\ UNCHANGED <<ui, triggers, limits, artifacts, mounted>>

\* ------------------------------------------------------------ runAnalysis
\* One invocation: its argument, the input its closure holds, the await it
\* is suspended at (or "done" / "failed"), and the state of each oracle
\* call.  The other fields record its history: the number of oracle calls it
\* issued, the artifacts it wrote, the artifacts at its start, the earlier
\* runs whose normalizeData was pending at its start, whether another run
\* was ever in flight together with it, the wizard step at its start, and
\* what each of its stage functions returned.
NewRun(isRealTime, inp) ==
  [isRealTime |-> isRealTime,
   inp |-> inp,
   pc |-> "normalize",
   call |-> [s \in Stages |->
               IF s \in AwaitCalls("normalize") THEN "pending" ELSE "idle"],
   issued |-> Cardinality(AwaitCalls("normalize")),
   pub |-> {},
   art0 |-> Artifacts,
   early |-> {i \in DOMAIN runs : runs[i].call["normalizeData"] = "pending"},
   overlap |-> \E i \in DOMAIN runs : InFlight(runs[i]),
   step0 |-> step,
   got |-> [s \in Stages |-> "nothing"]]

\* Lines 57-60: the flags, then the first oracle call.
StartRun(isRealTime, inp) ==
  /\ Len(runs) < limits.runs
  /\ loading' = IF ~isRealTime THEN TRUE ELSE loading
  /\ realTimeUpdate' = TRUE
  /\ runs' =
       Append([i \in DOMAIN runs |->
                 IF InFlight(runs[i]) THEN [runs[i] EXCEPT !.overlap = TRUE]
                 ELSE runs[i]],
              NewRun(isRealTime, inp))

\* The 'Proceed to Full Report' button.
ClickProceed ==
  /\ FormShown
  /\ ~loading
  /\ Cardinality({i \in DOMAIN runs : ~runs[i].isRealTime}) < limits.clicks
  /\ StartRun(FALSE, input)
  /\ triggers' = triggers + 1
  /\ UNCHANGED <<step, alerts, input, edits, limits, artifacts, debounce,
                 mounted, clock>>

\* The host runs the callback of a timeout that has elapsed.
TimerFire(t) ==
  /\ t \in timers
  /\ t.left = 0
  /\ timers' = timers \ {t}
  /\ StartRun(TRUE, t.snap)
  /\ burst' = [burst EXCEPT !.fired = burst.fired + 1]
  /\ triggers' = triggers + 1
  /\ UNCHANGED <<step, alerts, input, edits, limits, artifacts,
                 debounceTimer, mounted, sinceWatched>>

\* (variant: the second setter after the risk pair is forgotten)
Publishes_OnlyFirst(pc) ==
  CASE pc = "normalize" -> {"normalized"}
    [] pc = "risk" -> {"financialRisk"}
    [] pc = "decide" -> {"decision"}
    [] pc = "plan" -> {"uplift"}
    [] pc = "review" -> {"review"}
    [] OTHER -> {}

\* The setters called right after each await.
Publishes(pc) ==
  CASE pc = "normalize" -> {"normalized"}
    [] pc = "risk" -> {"financialRisk", "sustainabilityRisk"}
    [] pc = "decide" -> {"decision"}
    [] pc = "plan" -> {"uplift", "simulations"}
    [] pc = "review" -> {"review"}
    [] OTHER -> {}

Written(old, name, set, r) == IF name \in set THEN r ELSE old

Publish(set, r) ==
  /\ normalized' = Written(normalized, "normalized", set, r)
  /\ financialRisk' = Written(financialRisk, "financialRisk", set, r)
  /\ sustainabilityRisk' =
       Written(sustainabilityRisk, "sustainabilityRisk", set, r)
  /\ decision' = Written(decision, "decision", set, r)
  /\ uplift' = Written(uplift, "uplift", set, r)
  /\ simulations' = Written(simulations, "simulations", set, r)
  /\ review' = Written(review, "review", set, r)

\* (variant: the continuation runs as soon as one awaited call resolved)
AwaitDone_Any(pc, call) == \E s \in AwaitCalls(pc) : call[s] = "ok"

\* Promise.all / await: the continuation runs once every awaited call has
\* resolved.
AwaitDone(pc, call) == \A s \in AwaitCalls(pc) : call[s] = "ok"

\* (variant: finally leaves loading as it is)
Finally_KeepLoading ==
  /\ loading' = loading
  /\ realTimeUpdate' = FALSE

\* The `finally` block.
Finally ==
  /\ loading' = FALSE
  /\ realTimeUpdate' = FALSE

\* (variant: a success moves the wizard in either mode)
AdvancesStep_Always(isRealTime) == TRUE

\* (variant: the wizard stays where it is)
AdvancesStep_Never(isRealTime) == FALSE

\* Whether the run's success moves the wizard (line 83).
AdvancesStep(isRealTime) == ~isRealTime

\* (variant: the alert is raised in either mode)
RaisesAlert_Always(isRealTime) == TRUE

\* Whether the run's failure raises the alert (line 86).
RaisesAlert(isRealTime) == ~isRealTime

\* The code from one await to the next, or to the end of the try block.
Continue(r, call, got) ==
  LET run == runs[r]
      next == NextAwait(run.pc)
      set == Publishes(run.pc)
  IN /\ Publish(set, r)
     /\ IF next = "done"
        THEN /\ runs' = [runs EXCEPT ![r] =
                  [run EXCEPT !.call = call, !.got = got, !.pc = "done",
                              !.pub = run.pub \cup set]]
             /\ step' = IF AdvancesStep(run.isRealTime)
                        THEN AppStepNormalization ELSE step
             /\ Finally
             /\ UNCHANGED alerts
        ELSE /\ runs' = [runs EXCEPT ![r] =
                  [run EXCEPT
                     !.call = [s \in Stages |->
                                 IF s \in AwaitCalls(next) THEN "pending"
                                 ELSE call[s]],
                     !.got = got,
                     !.pc = next,
                     !.issued = run.issued + Cardinality(AwaitCalls(next)),
                     !.pub = run.pub \cup set]]
             /\ UNCHANGED ui

\* An oracle call of an in-flight run answers and the stage function
\* returns a result.
StageResolves(r, s) ==
  /\ mounted
  /\ r \in DOMAIN runs
  /\ InFlight(runs[r])
  /\ runs[r].call[s] = "pending"
  /\ \E text \in Responses(s) :
       /\ AdapterReturns(text) # "SyntaxError"
       /\ LET call == [runs[r].call EXCEPT ![s] = "ok"]
              got == [runs[r].got EXCEPT ![s] = AdapterReturns(text)]
          IN IF AwaitDone(runs[r].pc, call)
             THEN Continue(r, call, got)
             ELSE /\ runs' = [runs EXCEPT ![r].call = call, ![r].got = got]
                  /\ UNCHANGED <<ui, artifacts>>
  /\ UNCHANGED <<input, edits, triggers, limits, debounce, mounted,
                 clock>>

\* An oracle call of an in-flight run throws, or JSON.parse throws on its
\* answer: the await rejects, control goes to catch and then finally.  A sibling call of the same Promise.all
\* that is still pending goes on, but the run never looks at its outcome.
Abandon(call) ==
  [s \in Stages |-> IF call[s] = "pending" THEN "abandoned" ELSE call[s]]

\* (variant: the rejected call is issued again)
StageRejects_Retry(r, s) ==
  /\ mounted
  /\ r \in DOMAIN runs
  /\ InFlight(runs[r])
  /\ runs[r].call[s] = "pending"
  /\ runs[r].issued < Cardinality(Stages) + 1
  /\ runs' = [runs EXCEPT ![r].issued = runs[r].issued + 1]
  /\ UNCHANGED <<ui, input, edits, triggers, limits, artifacts, debounce,
                 mounted, clock>>

\* (variant: the failure handler clears the artifacts)
StageRejects_Reset(r, s) ==
  /\ mounted
  /\ r \in DOMAIN runs
  /\ InFlight(runs[r])
  /\ runs[r].call[s] = "pending"
  /\ runs' = [runs EXCEPT ![r] =
       [runs[r] EXCEPT
          !.call = Abandon([runs[r].call EXCEPT ![s] = "err"]),
          !.pc = "failed"]]
  /\ alerts' = IF ~runs[r].isRealTime THEN alerts + 1 ELSE alerts
  /\ loading' = FALSE
  /\ realTimeUpdate' = FALSE
  /\ normalized' = NoRun
  /\ financialRisk' = NoRun
  /\ sustainabilityRisk' = NoRun
  /\ decision' = NoRun
  /\ uplift' = NoRun
  /\ simulations' = NoRun
  /\ review' = NoRun
  /\ UNCHANGED <<step, input, edits, triggers, limits, debounce, mounted,
                 clock>>

\* (variant: the failure handler restores the artifacts of the run's start)
StageRejects_Rollback(r, s) ==
  /\ mounted
  /\ r \in DOMAIN runs
  /\ InFlight(runs[r])
  /\ runs[r].call[s] = "pending"
  /\ runs' = [runs EXCEPT ![r] =
       [runs[r] EXCEPT
          !.call = Abandon([runs[r].call EXCEPT ![s] = "err"]),
          !.pc = "failed"]]
  /\ alerts' = IF ~runs[r].isRealTime THEN alerts + 1 ELSE alerts
  /\ loading' = FALSE
  /\ realTimeUpdate' = FALSE
  /\ normalized' = runs[r].art0["normalized"]
  /\ financialRisk' = runs[r].art0["financialRisk"]
  /\ sustainabilityRisk' = runs[r].art0["sustainabilityRisk"]
  /\ decision' = runs[r].art0["decision"]
  /\ uplift' = runs[r].art0["uplift"]
  /\ simulations' = runs[r].art0["simulations"]
  /\ review' = runs[r].art0["review"]
  /\ UNCHANGED <<step, input, edits, triggers, limits, debounce, mounted,
                 clock>>

StageRejects(r, s) ==
  /\ mounted
  /\ r \in DOMAIN runs
  /\ InFlight(runs[r])
  /\ runs[r].call[s] = "pending"
  /\ runs' = [runs EXCEPT ![r] =
       [runs[r] EXCEPT
          !.call = Abandon([runs[r].call EXCEPT ![s] = "err"]),
          !.pc = "failed"]]
  /\ alerts' = IF RaisesAlert(runs[r].isRealTime) THEN alerts + 1 ELSE alerts
  /\ Finally
  /\ UNCHANGED <<step, input, edits, triggers, limits, artifacts, debounce,
                 mounted, clock>>

\* ------------------------------------------------------------ navigation
NavShown == mounted /\ step > AppStepInput

nextStep ==
  /\ NavShown
  /\ step # AppStepReview
  /\ step' = Min(step + 1, AppStepReview)
  /\ UNCHANGED <<loading, realTimeUpdate, alerts, input, edits, triggers,
                 limits, artifacts, debounce, mounted, runs, clock>>

prevStep ==
  /\ NavShown
  /\ step' = Max(step - 1, AppStepInput)
  /\ UNCHANGED <<loading, realTimeUpdate, alerts, input, edits, triggers,
                 limits, artifacts, debounce, mounted, runs, clock>>

\* ------------------------------------------------------ teardown and time
\* (variant: the effect has no cleanup)
Unmount_NoCleanup ==
  /\ mounted
  /\ mounted' = FALSE
  /\ UNCHANGED <<ui, input, edits, triggers, limits, artifacts, debounce,
                 runs, clock>>

\* The effect's cleanup at unmount.  React drops the component's state, so
\* nothing of it is followed afterwards except the host's timers.
Unmount ==
  /\ mounted
  /\ mounted' = FALSE
  /\ timers' = ClearPending(timers, debounceTimer)
  /\ UNCHANGED <<ui, input, edits, triggers, limits, artifacts, debounceTimer,
                 runs, clock>>

Quantum == DebounceMs \div 2

\* Time passes, by at most Quantum and never beyond a pending deadline.
Advance ==
  LET d == IF timers = {} THEN Quantum
           ELSE Min(Quantum, CHOOSE m \in {t.left : t \in timers} :
                               \A t \in timers : m <= t.left)
  IN /\ d > 0
     /\ timers' = {[t EXCEPT !.left = t.left - d] : t \in timers}
     /\ sinceWatched' = Min(DebounceMs, sinceWatched + d)
     /\ UNCHANGED <<ui, input, edits, triggers, limits, artifacts,
                    debounceTimer, mounted, runs, burst>>

Next ==
  \/ \E e \in ChangeEvents : handleInputChange(e)
  \/ \E type \in BusinessTypes : SelectBusinessType(type)
  \/ ClickProceed
  \/ \E t \in timers : TimerFire(t)
  \/ \E r \in DOMAIN runs, s \in Stages : StageResolves(r, s)
  \/ \E r \in DOMAIN runs, s \in Stages : StageRejects(r, s)
  \/ nextStep
  \/ prevStep
  \/ Unmount
  \/ Advance

Spec == Init /\ [][Next]_vars

SpecOverlap == InitOverlap /\ [][Next]_vars

SpecPayload == InitPayload /\ [][Next]_vars

\* Every oracle call settles, time passes and the host runs the callback of
\* an elapsed timeout.
Fairness ==
  /\ WF_vars(\E r \in DOMAIN runs, s \in Stages :
               StageResolves(r, s) \/ StageRejects(r, s))
  /\ WF_vars(\E t \in timers : TimerFire(t))
  /\ WF_vars(Advance)

SpecLive == InitLive /\ [][Next]_vars /\ Fairness

\* ==================================================================
\* Properties
\* ==================================================================
\* The dependency graph the stages are meant to respect, and the artifact
\* each stage produces.
StageArtifact(s) ==
  CASE s = "normalizeData" -> "normalized"
    [] s = "assessFinancialRisk" -> "financialRisk"
    [] s = "assessSustainabilityRisk" -> "sustainabilityRisk"
    [] s = "getDecision" -> "decision"
    [] s = "planUplift" -> "uplift"
    [] s = "simulateClimate" -> "simulations"
    [] s = "getReview" -> "review"

RiskStages == {"assessFinancialRisk", "assessSustainabilityRisk"}

Deps(s) ==
  CASE s = "normalizeData" -> {}
    [] s \in RiskStages -> {"normalizeData"}
    [] s = "getDecision" -> RiskStages
    [] s \in {"planUplift", "simulateClimate"} -> RiskStages
    [] s = "getReview" -> Stages \ {"getReview"}

Started(run) == {s \in Stages : run.call[s] # "idle"}
Resolved(run) == {s \in Stages : run.call[s] = "ok"}
RunIds == DOMAIN runs
Latest == Len(runs)
AllEnded == \A r \in RunIds : ~InFlight(runs[r])

\* C1: every write of a stage result into the seven artifacts comes from
\* the most recently started run; a completion of a superseded run is
\* never written.
C1_OnlyLatestRunWrites ==
  [][\A a \in ArtifactNames :
       Artifacts'[a] # Artifacts[a] => Artifacts'[a] = Latest]_vars

\* C2: if run g2 started while g1's normalizeData was still pending and
\* both runs completed all their stages, then once no run is in flight all
\* seven artifacts hold g2's results.
C2_FinalStateIsNewerRun ==
  \A g1, g2 \in RunIds :
    (/\ g1 \in runs[g2].early
     /\ g2 = Latest
     /\ runs[g1].pc = "done"
     /\ runs[g2].pc = "done"
     /\ AllEnded)
    => \A a \in ArtifactNames : Artifacts[a] = g2

\* C3: within a run no stage starts before the stages it depends on have
\* resolved, and getReview not before the six earlier artifacts of the run
\* exist.
C3_DependencyOrder ==
  \A r \in RunIds :
    /\ \A s \in Started(runs[r]) : Deps(s) \subseteq Resolved(runs[r])
    /\ "getReview" \in Started(runs[r])
         => /\ ArtifactNames \ {"review"} \subseteq runs[r].pub
            /\ \A a \in ArtifactNames \ {"review"} : Artifacts[a] # NoRun

C3_Witness ==
  \E r \in RunIds :
    /\ runs[r].call["getReview"] = "pending"
    /\ runs[r].call["planUplift"] = "ok"

BackgroundRuns == {r \in RunIds : runs[r].isRealTime}
FullRunDone == \E r \in RunIds : runs[r].pc = "done"

\* C4: a series of watched-field changes, each less than DebounceMs after
\* the previous one and made while normalized data exists, triggers exactly
\* one background run, DebounceMs after the last change of the series (as
\* long as the component stays mounted).
C4_DebounceSingleFlight ==
  /\ \A t \in timers : t.left + sinceWatched = DebounceMs
  /\ timers # {} => burst.armed /\ burst.fired = 0
  /\ burst.fired <= 1
  /\ burst.fired = 1 =>
       /\ burst.armed
       /\ sinceWatched = DebounceMs
       /\ BackgroundRuns # {}
  /\ (burst.n > 0 /\ burst.armed /\ mounted /\ timers = {}) => burst.fired = 1

C4_Witness ==
  /\ burst.n >= 2
  /\ burst.fired = 1
  /\ Latest \in BackgroundRuns
  /\ mounted

\* C5: before a run has completed all seven stages, no edit schedules a
\* timer and no background run is started.
C5_NoBackgroundBeforeFirstFullRun ==
  ~FullRunDone => timers = {} /\ BackgroundRuns = {}

\* C6: the background run a timer starts is given the input as it is when
\* the timer elapses, all ten fields.
C6_BackgroundRunGetsCurrentInput ==
  [][(Len(runs') > Len(runs) /\ runs'[Len(runs')].isRealTime)
       => runs'[Len(runs')].inp = input]_vars

\* The stage awaited jointly with s, if any, and the order of the awaits.
PlanStages == {"planUplift", "simulateClimate"}

Pair(s) ==
  IF s \in RiskStages THEN RiskStages
  ELSE IF s \in PlanStages THEN PlanStages
  ELSE {s}

Rank(s) ==
  CASE s = "normalizeData" -> 1
    [] s \in RiskStages -> 2
    [] s = "getDecision" -> 3
    [] s \in PlanStages -> 4
    [] s = "getReview" -> 5

\* The artifacts of the stages a run completed together with their pair.
Completed(run) ==
  {StageArtifact(s) :
     s \in {x \in Resolved(run) : Pair(x) \subseteq Resolved(run)}}

\* An artifact that is set was written by a run that published it.
Accounted(a) == Artifacts[a] # NoRun /\ a \in runs[Artifacts[a]].pub

\* A run no other run was in flight with, and which no run followed.
SoloLatest(r) == r = Latest /\ ~runs[r].overlap

C8_FailureHaltsRun ==
  /\ \A r \in RunIds :
       /\ \A s \in Stages :
            runs[r].call[s] = "err" =>
              /\ runs[r].pc = "failed"
              /\ \A d \in Stages :
                   (Rank(d) > Rank(s) \/ s \in Deps(d))
                     => runs[r].call[d] = "idle"
       /\ runs[r].pc = "failed" =>
            /\ \E s \in Stages : runs[r].call[s] = "err"
            /\ \A s \in Stages : runs[r].call[s] # "pending"
       /\ runs[r].issued = Cardinality(Started(runs[r]))
  /\ Len(runs) = triggers

C8_Witness ==
  \E r \in RunIds :
    /\ runs[r].call["getDecision"] = "err"
    /\ ~AllEnded

InteractiveRuns == {r \in RunIds : ~runs[r].isRealTime}

\* The run r fails in this step.
FailsNow(r) == InFlight(runs[r]) /\ runs'[r].pc = "failed"

\* C11: when an interactive run fails, exactly one alert is raised and the
\* wizard step right after the failure is the step at which that run
\* started.
C11_InteractiveFailureKeepsStep ==
  [][\A r \in InteractiveRuns :
       FailsNow(r) => (alerts' = alerts + 1 /\ step' = runs[r].step0)]_vars


\* ------------------------------------------------------------------ C12
\* C12: when a background run fails, no alert is raised, the wizard step is
\* left as it is, and no artifact that held a value is cleared: neither by
\* the failure itself nor, afterwards, any that held a value when the run
\* started.
C12_BackgroundFailureAbsorbed ==
  /\ [][\A r \in BackgroundRuns :
         FailsNow(r) =>
           /\ alerts' = alerts
           /\ step' = step
           /\ \A a \in ArtifactNames :
                Artifacts[a] # NoRun => Artifacts'[a] # NoRun]_vars
  /\ [](\A r \in BackgroundRuns :
         runs[r].pc = "failed" =>
           \A a \in ArtifactNames :
             runs[r].art0[a] # NoRun => Artifacts[a] # NoRun)

C12_Witness ==
  \E r \in BackgroundRuns :
    /\ runs[r].pc = "failed"
    /\ runs[r].art0["review"] # NoRun
    /\ review # NoRun
    /\ step > AppStepInput
    /\ alerts = 0


\* ------------------------------------------------------------------ C13
\* C13: a stage function never returns a payload that lacks a required
\* field; in particular a run whose getDecision answer is JSON without
\* `status` fails at that stage and never sets the decision artifact from
\* it.
C13_MalformedPayloadRejected ==
  \A r \in RunIds :
    /\ \A s \in Stages : runs[r].got[s] # "missingField"
    /\ runs[r].got["getDecision"] = "missingField" =>
         (runs[r].pc = "failed" /\ "decision" \notin runs[r].pub)


\* ------------------------------------------------------------------ C14
\* C14: once a run has started, no step changes the input it was given:
\* edits of the form made while it is in flight, or after it, leave the
\* input passed to its normalizeData call as it was.
C14_RunInputIsSnapshot ==
  [][\A r \in RunIds : runs'[r].inp = runs[r].inp]_vars

\* A run is in flight past normalizeData and the form has been edited since
\* it started.
C14_Witness ==
  \E r \in RunIds :
    /\ InFlight(runs[r])
    /\ "normalized" \in runs[r].pub
    /\ runs[r].inp # input
    /\ ~runs[r].isRealTime


\* ------------------------------------------------------------------ C15
\* C15: at most one debounce timer is pending, and it is the one the ref
\* names: scheduling a timer cancels the one pending before.
C15_AtMostOnePendingTimer ==
  /\ Cardinality(timers) <= 1
  /\ \A t \in timers : t.id = debounceTimer

\* A timer is pending that was scheduled while an earlier one was pending.
C15_Witness ==
  /\ timers # {}
  /\ burst.n >= 2
  /\ debounceTimer >= 2

\* ------------------------------------------------------------------ C16
\* C16: once the component is unmounted no timer is pending, and no run is
\* started from then on.
C16_UnmountCancelsTimer ==
  /\ [](~mounted => timers = {})
  /\ [][~mounted => runs' = runs]_vars

\* Unmounted with the debounce period of an armed, unfired series over.
C16_Witness ==
  /\ ~mounted
  /\ burst.armed
  /\ burst.fired = 0
  /\ sinceWatched >= DebounceMs


\* ------------------------------------------------------------------ C17
\* The run r ends its try block in this step.
SucceedsNow(r) == InFlight(runs[r]) /\ runs'[r].pc = "done"

\* C17: when an interactive run that overlapped no other run has had all
\* seven stages succeed, loading is cleared and the wizard is moved off the
\* Input step; all seven artifacts then hold that run's results, and they
\* and the cleared flag stay so until another run starts.
C17_InteractiveSuccessEndState ==
  /\ [][\A r \in InteractiveRuns :
         (SucceedsNow(r) /\ ~runs[r].overlap) =>
           /\ loading' = FALSE
           /\ step' # AppStepInput
           /\ \A a \in ArtifactNames : Artifacts'[a] = r]_vars
  /\ [](\A r \in InteractiveRuns :
         (runs[r].pc = "done" /\ SoloLatest(r)) =>
           /\ ~loading
           /\ \A a \in ArtifactNames : Artifacts[a] = r)

C17_Witness ==
  \E r \in InteractiveRuns :
    /\ runs[r].pc = "done"
    /\ SoloLatest(r)
    /\ Resolved(runs[r]) = Stages
    /\ review = r
    /\ step = AppStepNormalization
    /\ ~loading


\* ------------------------------------------------------------------ C18
\* C18: a run makes one oracle call for each stage function it has invoked,
\* never more, and a run whose stages all succeeded has invoked each of the
\* seven and made seven oracle calls.
C18_EachStageOnce ==
  \A r \in RunIds :
    /\ runs[r].issued = Cardinality(Started(runs[r]))
    /\ runs[r].pc = "done" =>
         /\ Started(runs[r]) = Stages
         /\ runs[r].issued = Cardinality(Stages)

C18_Witness ==
  \E r \in RunIds :
    /\ runs[r].pc = "done"
    /\ runs[r].isRealTime
    /\ runs[r].issued = Cardinality(Stages)
    /\ Resolved(runs[r]) = Stages

\* ------------------------------------------------------------------ C19
\* The two calls of the pair p have been issued and none has settled.
BothInFlight(run, p) == \A s \in p : run.call[s] = "pending"

\* C19: the two calls of a concurrent pair are issued in the same step, and
\* the stage after the pair is invoked only when both have resolved.
C19_PairIssuedTogetherAwaitedJointly ==
  \A r \in RunIds :
    /\ \A p \in {RiskStages, PlanStages} :
         \A s, t \in p : (s \in Started(runs[r])) <=> (t \in Started(runs[r]))
    /\ "getDecision" \in Started(runs[r]) => RiskStages \subseteq Resolved(runs[r])
    /\ "getReview" \in Started(runs[r]) => PlanStages \subseteq Resolved(runs[r])

\* Both calls of the second pair in flight, the first pair having been so
\* and passed.
C19_Witness ==
  \E r \in RunIds :
    /\ BothInFlight(runs[r], PlanStages)
    /\ RiskStages \subseteq Resolved(runs[r])
    /\ runs[r].pc = "plan"

\* ------------------------------------------------------------------ C20
\* C20: after a run that overlapped no other run has succeeded, and until
\* another run starts, every artifact holds that run's result: none holds
\* one of an earlier run.
C20_SuccessReplacesAll ==
  \A r \in RunIds :
    (runs[r].pc = "done" /\ SoloLatest(r)) =>
      \A a \in ArtifactNames :
        Artifacts[a] \notin (RunIds \ {r}) \cup {NoRun}

\* Such a run that started with all seven artifacts held by an earlier run.
C20_Witness ==
  \E r \in RunIds :
    /\ runs[r].pc = "done"
    /\ SoloLatest(r)
    /\ \A a \in ArtifactNames : runs[r].art0[a] \in RunIds \ {r}
    /\ \A a \in ArtifactNames : Artifacts[a] = r


\* ------------------------------------------------------------------ C21
\* An oracle call of some run resolves in this step.
StageCompletes ==
  \E r \in RunIds : Resolved(runs'[r]) # Resolved(runs[r])

\* C21: a step that changes one of the seven artifacts is a step in which a
\* stage of a run completes: edits of the form, navigation, scheduling,
\* cancelling and firing of the timer leave all seven as they are.
C21_OnlyStageCompletionWrites ==
  [][Artifacts' # Artifacts => StageCompletes]_vars

\* A background run just started by the timer, after an edit made on
\* the Input step with a full set of artifacts shown: all seven are as they
\* were.
C21_Witness ==
  \E r \in BackgroundRuns :
    /\ runs[r].call["normalizeData"] = "pending"
    /\ review # NoRun
    /\ Artifacts = runs[r].art0
    /\ edits > 0
    /\ step > AppStepInput


\* ------------------------------------------------------------------ C22
\* The input is edited in this step and the five watched fields keep
\* their values.
NonWatchedEdit == input' # input /\ Watched(input') = Watched(input)

\* C22: an edit of a field that is not watched leaves the pending timer, the
\* timer ref and the runs as they are: it starts, restarts and cancels no
\* timer and triggers no run.
C22_NonWatchedEditLeavesTimer ==
  [][NonWatchedEdit =>
       (timers' = timers /\ debounceTimer' = debounceTimer /\ runs' = runs
        /\ triggers' = triggers)]_vars

\* A timer is pending, partly elapsed, and a non-watched field was edited
\* since it was scheduled.
C22_Witness ==
  \E t \in timers :
    /\ t.left < DebounceMs
    /\ t.snap # input
    /\ Watched(t.snap) = Watched(input)


\* ------------------------------------------------------------------ C23
\* Some run starts, proceeds or ends in this step.
RunStep == runs' # runs

\* C23: a step of a run changes the wizard step only when it is the end of
\* an interactive run whose seven stages all succeeded, and then to
\* Normalization; no step of a background run, success or failure, changes
\* it.
C23_OnlyInteractiveSuccessMovesStep ==
  [][(RunStep /\ step' # step) =>
       \E r \in InteractiveRuns :
         /\ SucceedsNow(r)
         /\ Resolved(runs'[r]) = Stages
         /\ step' = AppStepNormalization]_vars

\* A background run has succeeded with the wizard on a later step, where
\* it still is.
C23_Witness ==
  /\ \E r \in BackgroundRuns : runs[r].pc = "done" /\ runs[r].step0 = step
  /\ step > AppStepNormalization


\* ------------------------------------------------------------------ C24
InteractiveInFlight == {r \in InteractiveRuns : InFlight(runs[r])}

\* C24: loading is true for as long as an interactive run is in flight, and
\* two interactive runs are never in flight together.
C24_LoadingHeldWhileInteractive ==
  /\ InteractiveInFlight # {} => loading
  /\ Cardinality(InteractiveInFlight) <= 1


\* ------------------------------------------------------------------ C25
\* C25: realTimeUpdate is true exactly in the states in which a run is in
\* flight; in particular the first of two overlapping runs to finish does
\* not clear it.
C25_IndicatorTracksRuns ==
  realTimeUpdate <=> (\E r \in RunIds : InFlight(runs[r]))

\* ------------------------------------------------------------------ C26
\* C26: when a run succeeds and leaves no run in flight, all seven
\* artifacts are results of one and the same run.  (No artifact changes
\* while no run is in flight, so this covers every state with no run in
\* flight whose last finished run succeeded.)
C26_QuiescentArtifactsFromOneRun ==
  [][\A r \in RunIds :
       (SucceedsNow(r) /\ \A i \in RunIds : ~InFlight(runs'[i])) =>
         \E q \in RunIds : \A a \in ArtifactNames : Artifacts'[a] = q]_vars


\* ------------------------------------------------------------------ C27
Present(a) == Artifacts[a] # NoRun

\* C27: in every state the two risk scores are present together and only
\* with normalized; decision only with both risk scores; uplift only with
\* decision; review only with normalized, both risk scores, decision and
\* uplift.  No step makes a present artifact absent.
C27_PresenceClosedAndMonotone ==
  /\ [](/\ Present("financialRisk") <=> Present("sustainabilityRisk")
        /\ Present("financialRisk") => Present("normalized")
        /\ Present("decision") =>
             (Present("financialRisk") /\ Present("sustainabilityRisk"))
        /\ Present("uplift") => Present("decision")
        /\ Present("review") =>
             /\ Present("normalized")
             /\ Present("financialRisk")
             /\ Present("sustainabilityRisk")
             /\ Present("decision")
             /\ Present("uplift"))
  /\ [][\A a \in ArtifactNames : Present(a) => Artifacts'[a] # NoRun]_vars

\* A run has failed midway (decision present, uplift absent) and
\* normalized has been rewritten by another run.
C27_Witness ==
  /\ Present("decision")
  /\ ~Present("uplift")
  /\ ~Present("review")
  /\ normalized # decision
  /\ \E r \in RunIds : runs[r].pc = "failed"


\* ------------------------------------------------------------------ C28
Quiescent ==
  /\ AllEnded
  /\ timers = {}
  /\ ~loading
  /\ ~realTimeUpdate

\* C28: when every oracle call settles and the edits and clicks come to an
\* end, the mounted component reaches, and stays in, a state with every
\* started run ended, no timer pending, and loading and realTimeUpdate
\* false.
C28_EventuallyQuiescent == <>[](mounted => Quiescent)

\* Quiescent after an interactive and a background run.
C28_Witness ==
  /\ mounted
  /\ Quiescent
  /\ BackgroundRuns # {}
  /\ InteractiveRuns # {}
  /\ edits = limits.edits


\* ------------------------------------------------------------------ C29
\* The timer fires in this step and starts the background run r.
FiresNow(r) ==
  /\ r = Len(runs')
  /\ Len(runs') = Len(runs) + 1
  /\ runs'[r].isRealTime

\* C29: the input given to a background run at the firing of the timer has
\* the values the five watched fields have at that moment; a pending timer
\* always holds the current values of the five.
C29_FiredSnapshotWatchedCurrent ==
  /\ [][\A r \in 1..Len(runs') :
         FiresNow(r) => Watched(runs'[r].inp) = Watched(input)]_vars
  /\ [](\A t \in timers : Watched(t.snap) = Watched(input))

\* A background run just started on watched values that were edited twice
\* in one series of changes.
C29_Witness ==
  \E r \in BackgroundRuns :
    /\ runs[r].call["normalizeData"] = "pending"
    /\ Watched(runs[r].inp) = Watched(input)
    /\ runs[r].inp.revenue # InitialInput.revenue
    /\ runs[r].inp.carbonIntensity # InitialInput.carbonIntensity
    /\ burst.n >= 2


\* ------------------------------------------------------------------ C30
\* C30: an interactive run ends with success only while the wizard is on
\* the Input step, so that its setStep never moves the wizard back from a
\* later step to Normalization.
C30_SuccessOnlyOnInputStep ==
  [][\A r \in InteractiveRuns :
       SucceedsNow(r) =>
         step = AppStepInput]_vars

====
